---- MODULE Spec2Model ----
(***************************************************************************)
(* Model of src/map_reduce.py: Task, Worker and MapReduce.                 *)
(*                                                                         *)
(* Spec       : two MapReduce objects driven by a single-threaded caller.  *)
(*              Engine "A" receives up to MaxCalls calls; engine           *)
(*              "B" is then constructed with the same argument and given   *)
(*              A's latest call, as the reference run on a fresh engine.   *)
(* SpecWorker : one free-standing Worker object receiving an arbitrary     *)
(*              interleaving of submit and execute calls.                  *)
(***************************************************************************)
EXTENDS Integers, Sequences, FiniteSets, TLC

\* ---------------------------------------------------------------- bounds
MaxLen == 3          \* longest `values` list passed to map_reduce
MaxWorkers == 3      \* largest integer num_workers passed to MapReduce()
MaxCalls == 2        \* map_reduce calls made on engine "A"
MaxOps == 3          \* submit/execute calls made on the free-standing Worker
MaxTaskLen == 2      \* longest value list of a directly constructed Task

VARIABLES
    num_workers,   \* [Engines -> PyValue]   self._num_workers of each engine
    ctor,          \* [Engines -> record]    latest MapReduce(...) call and how it ended
    calls,         \* [Engines -> Nat]       map_reduce calls started on each engine
    last,          \* [Engines -> record]    what the caller observed of the latest call
    cur,           \* engine whose map_reduce call is in progress
    pc,            \* position inside map_reduce
    args,          \* arguments (values, map, reduce) of the call in progress
    mapped,        \* local `mapped` of _prepare_tasks
    workers,       \* local `workers` (each entry is a Worker's _tasks)
    wi,            \* index of the next worker in the loop of _execute_tasks
    result,        \* local `result` of _execute_tasks
    mapCalls,      \* mapper invocations made by the call in progress
    reduceCalls,   \* reducer invocations made by the call in progress
    w_tasks,       \* _tasks of the free-standing Worker
    w_log          \* calls made on the free-standing Worker, with what they returned

vars == <<num_workers, ctor, calls, last, cur, pc, args, mapped, workers, wi,
          result, mapCalls, reduceCalls, w_tasks, w_log>>

engineVars == <<num_workers, ctor, calls, last>>
frameVars == <<cur, pc, args, mapped, workers, wi, result, mapCalls, reduceCalls>>
workerVars == <<w_tasks, w_log>>

Engines == {"A", "B"}

\* ------------------------------------------------------- Python values
\* A Python object passed as num_workers: an int v, a float v/2, a str or None.
PyInt(n) == [t |-> "int", v |-> n]
PyFloat(h) == [t |-> "float", v |-> h]
PyStr == [t |-> "str", v |-> 0]
PyNone == [t |-> "none", v |-> 0]
Unset == [t |-> "unset", v |-> 0]

NumWorkersArgs ==
    {PyInt(n) : n \in -1..MaxWorkers} \cup {PyFloat(5), PyFloat(-1), PyStr, PyNone}

\* `x <= 0` of Python: "True", "False", or "TypeError" for str and None.
LeZero(x) ==
    IF x.t \in {"int", "float"}
    THEN (IF x.v <= 0 THEN "True" ELSE "False")
    ELSE "TypeError"

\* The elements of the `values` lists.
Elements == {0, 1, 2}

RECURSIVE SeqsOfLen(_, _)
SeqsOfLen(S, n) ==
    IF n = 0 THEN {<<>>}
    ELSE {Append(s, x) : s \in SeqsOfLen(S, n - 1), x \in S}

SeqsUpTo(S, n) == UNION {SeqsOfLen(S, k) : k \in 0..n}

\* The mapper objects a caller passes.
Mappers == {"count", "parity", "inv"}
NotCallable == "not_callable"

\* map(value): count = lambda s: (s, 1); parity = lambda v: (v % 2, v);
\* inv = lambda v: (v, 2 // v), which raises on 0.  Calling a non-callable
\* raises TypeError.
MapApply(m, v) ==
    CASE m = "count" -> [raised |-> "", key |-> v, value |-> 1]
      [] m = "parity" -> [raised |-> "", key |-> v % 2, value |-> v]
      [] m = "inv" -> IF v = 0
                      THEN [raised |-> "ZeroDivisionError", key |-> 0, value |-> 0]
                      ELSE [raised |-> "", key |-> v, value |-> 2 \div v]
      [] OTHER -> [raised |-> "TypeError", key |-> 0, value |-> 0]

\* reduce(x, y): add = x + y; sub = x - y; floordiv = x // y, which raises on y = 0.
ReduceApply(r, x, y) ==
    CASE r = "add" -> [raised |-> "", value |-> x + y]
      [] r = "sub" -> [raised |-> "", value |-> x - y]
      [] r = "floordiv" -> IF y = 0
                           THEN [raised |-> "ZeroDivisionError", value |-> 0]
                           ELSE [raised |-> "", value |-> x \div y]
      [] OTHER -> [raised |-> "TypeError", value |-> 0]

ListArg(s) == [kind |-> "list", items |-> s]
ValuesArgs ==
    {ListArg(s) : s \in SeqsUpTo(Elements, MaxLen)}
        \cup {[kind |-> "tuple", items |-> <<1, 0>>], [kind |-> "int", items |-> <<>>]}

\* The (map, reduce) pairs a caller passes together.
Callbacks ==
    {<<"count", "add">>, <<"parity", "sub">>, <<"parity", "floordiv">>, <<"inv", "add">>,
     <<NotCallable, "add">>, <<"count", NotCallable>>, <<NotCallable, NotCallable>>}

CallArgsOver(V) == {[values |-> v, map |-> c[1], reduce |-> c[2]] : v \in V, c \in Callbacks}

CallArgs == CallArgsOver(ValuesArgs)

\* Calls that may be followed by further calls on the same engine: an empty
\* list, a list with three keys, and a non-list, with every pair of callbacks.
EarlierArgs ==
    CallArgsOver({ListArg(<<>>), ListArg(<<1, 2, 0>>), [kind |-> "int", items |-> <<>>]})

NoArgs == [values |-> [kind |-> "none", items |-> <<>>], map |-> "", reduce |-> ""]

\* ------------------------------------------------------------ class Task
Task(key, values, reduce) == [key |-> key, values |-> values, reduce |-> reduce]

\* functools.reduce(function, sequence) without initializer: the accumulator
\* starts as the first item and absorbs the rest left to right.  `calls`
\* counts the invocations of `function`, the raising one included.
RECURSIVE ReduceFrom(_, _, _, _, _)
ReduceFrom(r, acc, vals, i, n) ==
    IF i > Len(vals) THEN [raised |-> "", value |-> acc, calls |-> n]
    ELSE LET x == ReduceApply(r, acc, vals[i])
         IN IF x.raised # ""
            THEN [raised |-> x.raised, value |-> 0, calls |-> n + 1]
            ELSE ReduceFrom(r, x.value, vals, i + 1, n + 1)

\* Variant: folds from the right end of the list.
functools_reduce_reversed(r, vals) ==
    IF Len(vals) = 0 THEN [raised |-> "TypeError", value |-> 0, calls |-> 0]
    ELSE LET rev == [i \in 1..Len(vals) |-> vals[Len(vals) + 1 - i]]
         IN ReduceFrom(r, rev[1], rev, 2, 0)

functools_reduce(r, vals) ==
    IF Len(vals) = 0 THEN [raised |-> "TypeError", value |-> 0, calls |-> 0]
    ELSE ReduceFrom(r, vals[1], vals, 2, 0)

\* Task.run
TaskRun(task) ==
    LET f == functools_reduce(task.reduce, task.values)
    IN [raised |-> f.raised, pair |-> <<task.key, f.value>>, calls |-> f.calls]

\* ---------------------------------------------------------- class Worker
\* Variant: the new task goes to the front of the list.
WorkerSubmitFront(tasks, task) == <<task>> \o tasks

\* Worker.submit
WorkerSubmit(tasks, task) == Append(tasks, task)

\* Worker.execute: [task.run() for task in self._tasks]; the first raising
\* task ends the comprehension.
RECURSIVE ExecuteFrom(_, _, _, _)
ExecuteFrom(tasks, i, acc, n) ==
    IF i > Len(tasks) THEN [raised |-> "", ret |-> acc, calls |-> n]
    ELSE LET x == TaskRun(tasks[i])
         IN IF x.raised # ""
            THEN [raised |-> x.raised, ret |-> acc, calls |-> n + x.calls]
            ELSE ExecuteFrom(tasks, i + 1, Append(acc, x.pair), n + x.calls)

WorkerExecute(tasks) == ExecuteFrom(tasks, 1, <<>>, 0)

\* ------------------------------------------------------- class MapReduce
\* Variant: the reducer is not checked up front.
ValidateNoReduceCheck(a) ==
    IF a.values.kind # "list" THEN "ValueError"
    ELSE IF a.map = NotCallable THEN "ValueError"
    ELSE "ok"

\* Variant: an empty list is rejected as well.
ValidateNonEmpty(a) ==
    IF a.values.kind # "list" \/ a.values.items = <<>> THEN "ValueError"
    ELSE IF a.map = NotCallable THEN "ValueError"
    ELSE IF a.reduce = NotCallable THEN "ValueError"
    ELSE "ok"

\* The argument checks at the top of map_reduce.
Validate(a) ==
    IF a.values.kind # "list" THEN "ValueError"
    ELSE IF a.map = NotCallable THEN "ValueError"
    ELSE IF a.reduce = NotCallable THEN "ValueError"
    ELSE "ok"

\* Variant: every pair opens a group of its own.
DictAppendNoMerge(d, k, v) == Append(d, <<k, <<v>>>>)

\* task_inputs[key].append(value) on the insertion-ordered defaultdict(list),
\* held as a sequence of <<key, list>> items.
DictAppend(d, k, v) ==
    IF \E p \in 1..Len(d) : d[p][1] = k
    THEN [p \in 1..Len(d) |-> IF d[p][1] = k THEN <<k, Append(d[p][2], v)>> ELSE d[p]]
    ELSE Append(d, <<k, <<v>>>>)

\* for key, value in mapped: task_inputs[key].append(value)
RECURSIVE GroupFrom(_, _, _)
GroupFrom(m, i, d) ==
    IF i > Len(m) THEN d
    ELSE GroupFrom(m, i + 1, DictAppend(d, m[i][1], m[i][2]))

TaskInputs(m) == GroupFrom(m, 1, <<>>)

\* [Worker() for _ in range(n)]
NewWorkers(n) == [w \in 1..n |-> <<>>]

\* Variant: the round-robin cursor is off by one.
WorkerIndexShifted(i, n) == (i + 1) % n

\* Variant: the round-robin cursor carries on from the engine's earlier calls.
WorkerIndexSticky(i, n) == (i + calls[cur] - 1) % n

\* The worker that receives the i-th item (i counted from 0).
WorkerIndex(i, n) == i % n

\* Variant: new results go in front of the earlier ones.
ExtendFront(res, more) == more \o res

\* result.extend(more)
Extend(res, more) == res \o more

\* for i, (key, value) in enumerate(task_inputs.items()):
\*     workers[i % n].submit(Task(key, value, reduce))
RECURSIVE SubmitFrom(_, _, _, _, _)
SubmitFrom(ws, d, i, n, reduce) ==
    IF i >= Len(d) THEN ws
    ELSE LET w == WorkerIndex(i, n) + 1
             t == Task(d[i + 1][1], d[i + 1][2], reduce)
         IN SubmitFrom([ws EXCEPT ![w] = WorkerSubmit(ws[w], t)], d, i + 1, n, reduce)

\* What the caller observes of one call.
NoCall ==
    [args |-> NoArgs, outcome |-> "none", delivered |-> FALSE, ret |-> <<>>,
     assign |-> <<>>, produced |-> <<>>, mapCalls |-> 0, reduceCalls |-> 0]

NoCtor == [arg |-> Unset, outcome |-> "none"]

ClearFrame ==
    /\ cur' = "-"
    /\ pc' = "idle"
    /\ args' = NoArgs
    /\ mapped' = <<>>
    /\ workers' = <<>>
    /\ wi' = 0
    /\ result' = <<>>
    /\ mapCalls' = 0
    /\ reduceCalls' = 0

\* Variant: the pairs produced so far are handed to the caller with the error.
RaiseWithPartial(err, nMap, nReduce) ==
    /\ last' = [last EXCEPT ![cur] =
                   [args |-> args, outcome |-> err, delivered |-> TRUE, ret |-> result,
                    assign |-> workers, produced |-> result,
                    mapCalls |-> nMap, reduceCalls |-> nReduce]]
    /\ ClearFrame

\* The call in progress ends by raising `err`: nothing is handed to the caller.
Raise(err, nMap, nReduce) ==
    /\ last' = [last EXCEPT ![cur] =
                   [args |-> args, outcome |-> err, delivered |-> FALSE, ret |-> <<>>,
                    assign |-> workers, produced |-> result,
                    mapCalls |-> nMap, reduceCalls |-> nReduce]]
    /\ ClearFrame

Init ==
    /\ num_workers = [e \in Engines |-> Unset]
    /\ ctor = [e \in Engines |-> NoCtor]
    /\ calls = [e \in Engines |-> 0]
    /\ last = [e \in Engines |-> NoCall]
    /\ cur = "-"
    /\ pc = "idle"
    /\ args = NoArgs
    /\ mapped = <<>>
    /\ workers = <<>>
    /\ wi = 0
    /\ result = <<>>
    /\ mapCalls = 0
    /\ reduceCalls = 0
    /\ w_tasks = <<>>
    /\ w_log = <<>>

\* MapReduce.__init__(num_workers=n)
Construct(e, n) ==
    /\ pc = "idle"
    /\ ctor[e] = NoCtor
    /\ LET c == LeZero(n)
       IN \/ /\ c = "TypeError"
             /\ ctor' = [ctor EXCEPT ![e] = [arg |-> n, outcome |-> "TypeError"]]
             /\ UNCHANGED num_workers
          \/ /\ c = "True"
             /\ ctor' = [ctor EXCEPT ![e] = [arg |-> n, outcome |-> "ValueError"]]
             /\ UNCHANGED num_workers
          \/ /\ c = "False"
             /\ ctor' = [ctor EXCEPT ![e] = [arg |-> n, outcome |-> "ok"]]
             /\ num_workers' = [num_workers EXCEPT ![e] = n]
    /\ UNCHANGED <<calls, last, frameVars, workerVars>>

\* MapReduce.map_reduce(values, map, reduce): entry and argument checks.
Call(e, a) ==
    /\ pc = "idle"
    /\ num_workers[e] # Unset
    /\ calls' = [calls EXCEPT ![e] = @ + 1]
    /\ IF Validate(a) = "ok"
       THEN /\ cur' = e
            /\ pc' = "map"
            /\ args' = a
            /\ last' = [last EXCEPT ![e] = NoCall]
            /\ UNCHANGED <<mapped, workers, wi, result, mapCalls, reduceCalls>>
       ELSE /\ last' = [last EXCEPT ![e] =
                           [NoCall EXCEPT !.args = a, !.outcome = Validate(a)]]
            /\ UNCHANGED frameVars
    /\ UNCHANGED <<num_workers, ctor, workerVars>>

\* mapped = [map(value) for value in values], one element per step.
MapStep ==
    /\ pc = "map"
    /\ Len(mapped) < Len(args.values.items)
    /\ LET x == MapApply(args.map, args.values.items[Len(mapped) + 1])
       IN IF x.raised # ""
          THEN Raise(x.raised, mapCalls + 1, reduceCalls)
          ELSE /\ mapped' = Append(mapped, <<x.key, x.value>>)
               /\ mapCalls' = mapCalls + 1
               /\ UNCHANGED <<last, cur, pc, args, workers, wi, result, reduceCalls>>
    /\ UNCHANGED <<num_workers, ctor, calls, workerVars>>

\* The rest of _prepare_tasks: grouping, worker creation, distribution.
\* range(n) raises TypeError unless n is an int.
PrepareTasks ==
    /\ pc = "map"
    /\ Len(mapped) = Len(args.values.items)
    /\ LET n == num_workers[cur]
       IN IF n.t # "int"
          THEN Raise("TypeError", mapCalls, reduceCalls)
          ELSE /\ workers' = SubmitFrom(NewWorkers(n.v), TaskInputs(mapped), 0, n.v,
                                        args.reduce)
               /\ pc' = "execute"
               /\ wi' = 1
               /\ result' = <<>>
               /\ UNCHANGED <<last, cur, args, mapped, mapCalls, reduceCalls>>
    /\ UNCHANGED <<num_workers, ctor, calls, workerVars>>

\* One iteration of `for worker in workers: result.extend(worker.execute())`.
ExecuteWorker ==
    /\ pc = "execute"
    /\ wi <= Len(workers)
    /\ LET x == WorkerExecute(workers[wi])
       IN IF x.raised # ""
          THEN Raise(x.raised, mapCalls, reduceCalls + x.calls)
          ELSE /\ result' = Extend(result, x.ret)
               /\ wi' = wi + 1
               /\ reduceCalls' = reduceCalls + x.calls
               /\ UNCHANGED <<last, cur, pc, args, mapped, workers, mapCalls>>
    /\ UNCHANGED <<num_workers, ctor, calls, workerVars>>

\* return result
Return ==
    /\ pc = "execute"
    /\ wi > Len(workers)
    /\ last' = [last EXCEPT ![cur] =
                   [args |-> args, outcome |-> "returned", delivered |-> TRUE,
                    ret |-> result, assign |-> workers, produced |-> result,
                    mapCalls |-> mapCalls, reduceCalls |-> reduceCalls]]
    /\ ClearFrame
    /\ UNCHANGED <<num_workers, ctor, calls, workerVars>>

\* The caller: calls on "A" first, then the reference run on a fresh "B".
Next ==
    \/ ctor["A"] = NoCtor /\ \E n \in NumWorkersArgs : Construct("A", n)
    \/ /\ pc = "idle"
       /\ calls["A"] < MaxCalls
       /\ ctor["B"] = NoCtor
       /\ last["A"].outcome = "none" \/ last["A"].args \in EarlierArgs
       /\ \E a \in CallArgs : Call("A", a)
    \/ last["A"].outcome # "none" /\ Construct("B", ctor["A"].arg)
    \/ calls["B"] = 0 /\ Call("B", last["A"].args)
    \/ MapStep
    \/ PrepareTasks
    \/ ExecuteWorker
    \/ Return

Spec == Init /\ [][Next]_vars

\* --------------------------------------------- the free-standing Worker
TaskKeys == {"peter", "jenny"}
TaskValues == {0, 1}
TaskArgs ==
    {Task(k, v, r) : k \in TaskKeys, v \in SeqsUpTo(TaskValues, MaxTaskLen),
                     r \in {"floordiv"}}

\* worker.submit(task)
Submit(task) ==
    /\ Len(w_log) < MaxOps
    /\ w_tasks' = WorkerSubmit(w_tasks, task)
    /\ w_log' = Append(w_log, [op |-> "submit", task |-> task, raised |-> "", ret |-> <<>>])
    /\ UNCHANGED <<engineVars, frameVars>>

\* worker.execute()
Execute ==
    /\ Len(w_log) < MaxOps
    /\ LET x == WorkerExecute(w_tasks)
       IN w_log' = Append(w_log, [op |-> "execute", task |-> Task("", <<>>, ""),
                                  raised |-> x.raised,
                                  ret |-> IF x.raised = "" THEN x.ret ELSE <<>>])
    /\ UNCHANGED <<w_tasks, engineVars, frameVars>>

NextWorker ==
    \/ Len(w_log) < MaxOps /\ \E t \in TaskArgs : Submit(t)
    \/ Execute

SpecWorker == Init /\ [][NextWorker]_vars

\* =================================================================
\* Reference definitions used by the properties.  They are written from
\* the call's arguments alone, not from the engine's intermediate state.

Items(a) == a.values.items
KeyAt(a, i) == MapApply(a.map, Items(a)[i]).key
ValueAt(a, i) == MapApply(a.map, Items(a)[i]).value
MapperKeys(a) == {KeyAt(a, i) : i \in 1..Len(Items(a))}
MapperFails(a) == \E i \in 1..Len(Items(a)) : MapApply(a.map, Items(a)[i]).raised # ""

\* Positions at which a key occurs for the first time, and the number of the
\* key first seen at position p (0 for the first distinct key, 1 for the next...).
FirstPositions(a) ==
    {i \in 1..Len(Items(a)) : \A j \in 1..(i - 1) : KeyAt(a, j) # KeyAt(a, i)}
KeyNumber(a, p) == Cardinality({q \in FirstPositions(a) : q < p})
NumKeys(a) == Cardinality(FirstPositions(a))

\* The values the mapper paired with key k, in input-element order.
PositionsOf(a, k) == {i \in 1..Len(Items(a)) : KeyAt(a, i) = k}
ValuesOf(a, k) ==
    [j \in 1..Cardinality(PositionsOf(a, k)) |->
        ValueAt(a, CHOOSE i \in PositionsOf(a, k) :
                       Cardinality({q \in PositionsOf(a, k) : q <= i}) = j)]

\* reduce(...reduce(reduce(v1, v2), v3)..., vm), unwound from the last value.
RECURSIVE LeftFold(_, _)
LeftFold(r, s) ==
    IF Len(s) = 1 THEN s[1]
    ELSE ReduceApply(r, LeftFold(r, SubSeq(s, 1, Len(s) - 1)), s[Len(s)]).value

FoldFails(r, s) ==
    \E j \in 2..Len(s) : ReduceApply(r, LeftFold(r, SubSeq(s, 1, j - 1)), s[j]).raised # ""
ReducerFails(a) == \E k \in MapperKeys(a) : FoldFails(a.reduce, ValuesOf(a, k))

Occurrences(r, k) == Cardinality({p \in 1..Len(r) : r[p][1] = k})
PositionIn(r, k) == CHOOSE p \in 1..Len(r) : r[p][1] = k
Holds(ws, w, k) == \E t \in 1..Len(ws[w]) : ws[w][t].key = k

RECURSIVE SumValues(_, _)
SumValues(tasks, t) == IF t = 0 THEN 0 ELSE SumValues(tasks, t - 1) + Len(tasks[t].values)

RECURSIVE TotalValues(_, _)
TotalValues(ws, w) ==
    IF w = 0 THEN 0 ELSE TotalValues(ws, w - 1) + SumValues(ws[w], Len(ws[w]))

RECURSIVE TotalTasks(_, _)
TotalTasks(ws, w) == IF w = 0 THEN 0 ELSE TotalTasks(ws, w - 1) + Len(ws[w])

RECURSIVE KeysOfTasks(_, _)
KeysOfTasks(ws, w) ==
    IF w = 0 THEN <<>>
    ELSE KeysOfTasks(ws, w - 1) \o [t \in 1..Len(ws[w]) |-> ws[w][t].key]

Returned(e) == last[e].outcome = "returned"
Failed(e) == last[e].outcome \notin {"none", "returned"}
IntWorkers(e) == num_workers[e].t = "int" /\ num_workers[e].v >= 1

\* ----------------------------------------------------------------- C1
\* C1: the result of a call that returns has exactly one pair for each
\* distinct key the mapper produced over `values` and no pair for any other
\* key, whatever the worker count.
C1_KeysExactlyOnce ==
    \A e \in Engines :
        Returned(e) =>
            LET a == last[e].args
                r == last[e].ret
            IN /\ \A k \in MapperKeys(a) : Occurrences(r, k) = 1
               /\ \A p \in 1..Len(r) : r[p][1] \in MapperKeys(a)
               /\ Len(r) = NumKeys(a)

\* A call returned with more distinct keys than workers.
C1_Witness ==
    /\ Returned("A")
    /\ num_workers["A"] = PyInt(2)
    /\ NumKeys(last["A"].args) = 3
    /\ Len(last["A"].ret) = 3

\* ----------------------------------------------------------------- C2
\* C2: every aggregate of a returned result is the seedless left fold of
\* the reducer over the values mapped to its key, in input order; every
\* mapped value sits in exactly one group and takes part in exactly one
\* fold; with mapper v -> (v, 1) and reducer + the aggregate of k is the
\* number of occurrences of k in the input.
C2_LeftFoldInInputOrder ==
    \A e \in Engines :
        Returned(e) =>
            LET a == last[e].args
                r == last[e].ret
                ws == last[e].assign
            IN /\ \A p \in 1..Len(r) :
                    /\ r[p][2] = LeftFold(a.reduce, ValuesOf(a, r[p][1]))
                    /\ Len(ValuesOf(a, r[p][1])) = 1 => r[p][2] = ValuesOf(a, r[p][1])[1]
                    /\ (a.map = "count" /\ a.reduce = "add") =>
                          r[p][2] = Cardinality({i \in 1..Len(Items(a)) :
                                                    Items(a)[i] = r[p][1]})
               /\ \A w \in 1..Len(ws) : \A t \in 1..Len(ws[w]) :
                    ws[w][t].values = ValuesOf(a, ws[w][t].key)
               /\ TotalValues(ws, Len(ws)) = Len(Items(a))
               /\ last[e].reduceCalls = Len(Items(a)) - NumKeys(a)

\* A returned call folded three values of one key with a reducer for which
\* the fold order matters.
C2_Witness ==
    /\ Returned("A")
    /\ last["A"].args.reduce = "sub"
    /\ last["A"].args.map = "parity"
    /\ last["A"].args.values = ListArg(<<0, 2, 2>>)
    /\ last["A"].ret = <<<<0, -4>>>>

\* ----------------------------------------------------------------- C3
\* C3: a call whose `values` is not a sequence, or whose map or reduce is
\* not callable, ends with ValueError before any work: no mapper or reducer
\* invocation, no Worker or Task, nothing delivered, and the engine's worker
\* count is left as it was; this includes calls with an empty list.
BadArguments(a) ==
    a.values.kind = "int" \/ a.map = NotCallable \/ a.reduce = NotCallable

C3_State ==
    \A e \in Engines :
        (last[e].outcome # "none" /\ BadArguments(last[e].args)) =>
            /\ last[e].outcome = "ValueError"
            /\ last[e].mapCalls = 0
            /\ last[e].reduceCalls = 0
            /\ last[e].assign = <<>>
            /\ ~last[e].delivered

C3_NoWorkForBadArguments ==
    /\ []C3_State
    /\ [][\A e \in Engines : calls'[e] # calls[e] => num_workers'[e] = num_workers[e]]_vars
    /\ [][\A e \in Engines :
            (calls'[e] # calls[e] /\ BadArguments(last'[e].args)) =>
                UNCHANGED <<frameVars, num_workers>>]_vars

\* A call with an empty list and a non-callable reducer was rejected.
C3_Witness ==
    /\ last["A"].outcome = "ValueError"
    /\ last["A"].args.values = ListArg(<<>>)
    /\ last["A"].args.map \in Mappers
    /\ last["A"].args.reduce = NotCallable
    /\ calls["A"] = 2

\* ----------------------------------------------------------------- C4
\* C4: MapReduce(n) with n not a positive integer (zero, negative, or not
\* an integer at all) raises ValueError at construction, so every engine
\* that exists holds a positive integer worker count.
PositiveInteger(x) == x.t = "int" /\ x.v > 0

C4_ConstructionRejectsNonPositiveInteger ==
    \A e \in Engines :
        /\ (ctor[e].outcome # "none" /\ ~PositiveInteger(ctor[e].arg)) =>
               ctor[e].outcome = "ValueError"
        /\ num_workers[e] # Unset => PositiveInteger(num_workers[e])

\* ----------------------------------------------------------------- C5
\* C5: a call made on an engine after earlier calls (successful or failed)
\* ends the same way, returns the same sequence and assigns the keys to the
\* same workers as the same call on a freshly constructed engine with the
\* same worker count; nothing of a call is left in the engine afterwards.
C5_IndependentOfEarlierCalls ==
    /\ (/\ last["A"].outcome # "none"
        /\ last["B"].outcome # "none"
        /\ last["A"].args = last["B"].args
        /\ num_workers["A"] = num_workers["B"]
        /\ calls["B"] = 1)
       => last["A"] = last["B"]
    /\ pc = "idle" =>
          /\ mapped = <<>>
          /\ workers = <<>>
          /\ result = <<>>

\* The engine with two calls behind it and the fresh engine both returned
\* a result with several keys.
C5_Witness ==
    /\ calls["A"] = 2
    /\ calls["B"] = 1
    /\ Returned("A")
    /\ Returned("B")
    /\ num_workers["A"] = PyInt(2)
    /\ Len(last["B"].ret) = 3

\* ----------------------------------------------------------------- C6
\* C6: with an empty list and any worker count N >= 1 the call raises
\* nothing, creates N workers holding no work unit, invokes neither the
\* mapper nor the reducer and returns the empty sequence.
C6_EmptyInput ==
    \A e \in Engines :
        (/\ last[e].outcome # "none"
         /\ last[e].args.values = ListArg(<<>>)
         /\ last[e].args.map # NotCallable
         /\ last[e].args.reduce # NotCallable
         /\ IntWorkers(e))
        => /\ last[e].outcome = "returned"
           /\ last[e].delivered
           /\ last[e].ret = <<>>
           /\ last[e].mapCalls = 0
           /\ last[e].reduceCalls = 0
           /\ last[e].assign = [w \in 1..num_workers[e].v |-> <<>>]

\* A call with an empty list returned on an engine with three workers.
C6_Witness ==
    /\ Returned("A")
    /\ last["A"].args.values = ListArg(<<>>)
    /\ num_workers["A"] = PyInt(3)
    /\ Len(last["A"].assign) = 3

\* ----------------------------------------------------------------- C7
\* C7: when the mapper fails on an element or the reducer fails in a fold,
\* the call ends with an error and hands nothing to the caller, even when
\* earlier workers had produced their pairs; no mapper or reducer
\* invocation is repeated.
C7_AllOrNothing ==
    /\ \A e \in Engines :
        /\ Failed(e) => (~last[e].delivered /\ last[e].ret = <<>>)
        /\ (/\ last[e].outcome # "none"
            /\ Validate(last[e].args) = "ok"
            /\ MapperFails(last[e].args) \/ ReducerFails(last[e].args))
           => Failed(e)
        /\ last[e].outcome # "none" =>
              /\ last[e].mapCalls <= Len(Items(last[e].args))
              /\ last[e].reduceCalls <= Len(Items(last[e].args))
    /\ pc # "idle" =>
          /\ mapCalls = Len(mapped)
          /\ reduceCalls <= Len(mapped) - Len(result)

\* The reducer failed in the second worker after the first worker had
\* produced its pair.
C7_Witness ==
    /\ last["A"].outcome = "ZeroDivisionError"
    /\ last["A"].args.reduce = "floordiv"
    /\ Len(last["A"].produced) >= 1
    /\ ~last["A"].delivered

\* ----------------------------------------------------------------- C8
\* C8: after partitioning there are exactly N workers, the i-th distinct
\* key (numbered from 0 by first occurrence) is held by worker i mod N and
\* by no other, workers with index >= K hold nothing when K < N, and the
\* task counts of two workers differ by at most one.
RoundRobin(a, ws, n) ==
    /\ Len(ws) = n
    /\ \A p \in FirstPositions(a) : \A w \in 1..n :
          Holds(ws, w, KeyAt(a, p)) <=> (w = (KeyNumber(a, p) % n) + 1)
    /\ \A w \in 1..n : \A t \in 1..Len(ws[w]) : ws[w][t].key \in MapperKeys(a)
    /\ TotalTasks(ws, n) = NumKeys(a)
    /\ \A w \in 1..n : w > NumKeys(a) => ws[w] = <<>>
    /\ \A v, w \in 1..n : Len(ws[v]) - Len(ws[w]) <= 1

C8_RoundRobinAssignment ==
    /\ pc = "execute" => RoundRobin(args, workers, num_workers[cur].v)
    /\ \A e \in Engines : Returned(e) => RoundRobin(last[e].args, last[e].assign, num_workers[e].v)

\* Three distinct keys were partitioned over two workers.
C8_Witness ==
    /\ pc = "execute"
    /\ num_workers[cur] = PyInt(2)
    /\ NumKeys(args) = 3
    /\ Len(workers[1]) = 2
    /\ Len(workers[2]) = 1

\* Two distinct keys were partitioned over three workers.
C8_WitnessFewKeys ==
    /\ pc = "execute"
    /\ num_workers[cur] = PyInt(3)
    /\ NumKeys(args) = 2
    /\ workers[3] = <<>>

\* ----------------------------------------------------------------- C9
\* C9: workers run one after another in index order, each to completion,
\* only once mapping and partitioning are over; the result is the workers'
\* results concatenated in index order, so the pair of the i-th distinct key
\* precedes the pair of the j-th exactly when (i mod N, i div N) is
\* lexicographically smaller than (j mod N, j div N).
LexBefore(i, j, n) ==
    \/ i % n < j % n
    \/ (i % n = j % n /\ i \div n < j \div n)

WorkerMajor(a, r, n) ==
    \A p, q \in FirstPositions(a) :
        p # q =>
            ((PositionIn(r, KeyAt(a, p)) < PositionIn(r, KeyAt(a, q)))
                <=> LexBefore(KeyNumber(a, p), KeyNumber(a, q), n))

C9_State ==
    /\ pc = "execute" =>
          /\ Len(mapped) = Len(Items(args))
          /\ TotalTasks(workers, Len(workers)) = NumKeys(args)
          /\ wi \in 1..(Len(workers) + 1)
          /\ [p \in 1..Len(result) |-> result[p][1]] = KeysOfTasks(workers, wi - 1)
    /\ pc = "map" => (workers = <<>> /\ result = <<>> /\ reduceCalls = 0)
    /\ \A e \in Engines :
          Returned(e) =>
              /\ [p \in 1..Len(last[e].ret) |-> last[e].ret[p][1]]
                    = KeysOfTasks(last[e].assign, Len(last[e].assign))
              /\ WorkerMajor(last[e].args, last[e].ret, num_workers[e].v)

C9_WorkerMajorOrder ==
    /\ []C9_State
    /\ [][(pc = "execute" /\ pc' = "execute") =>
             /\ wi' = wi + 1
             /\ workers' = workers
             /\ mapped' = mapped
             /\ Len(result') = Len(result) + Len(workers[wi])
             /\ SubSeq(result', 1, Len(result)) = result]_vars

\* Three keys over two workers: the result lists them in the order 0, 2, 1.
C9_Witness ==
    /\ Returned("A")
    /\ num_workers["A"] = PyInt(2)
    /\ last["A"].args.values = ListArg(<<1, 2, 0>>)
    /\ last["A"].args.map = "count"
    /\ last["A"].ret = <<<<1, 1>>, <<0, 1>>, <<2, 1>>>>

\* ---------------------------------------------------------------- C10
\* C10: on one Worker, submit only appends to the task list, and every
\* execute that returns gives one (key, aggregate) pair per task submitted
\* so far, in submission order; execute leaves the tasks as they are, so two
\* executes in a row return equal lists and a later submit shows up in the
\* next execute.
IsSubmit(x) == x.op = "submit"
SubmittedBefore(p) ==
    LET subs == SelectSeq(SubSeq(w_log, 1, p - 1), IsSubmit)
    IN [i \in 1..Len(subs) |-> subs[i].task]

C10_State ==
    /\ w_tasks = SubmittedBefore(Len(w_log) + 1)
    /\ \A p \in 1..Len(w_log) :
          (w_log[p].op = "execute" /\ w_log[p].raised = "") =>
              LET sub == SubmittedBefore(p)
              IN /\ Len(w_log[p].ret) = Len(sub)
                 /\ \A i \in 1..Len(sub) :
                       w_log[p].ret[i] = <<sub[i].key, LeftFold(sub[i].reduce, sub[i].values)>>
    /\ \A p \in 1..(Len(w_log) - 1) :
          (w_log[p].op = "execute" /\ w_log[p + 1].op = "execute") =>
              w_log[p].ret = w_log[p + 1].ret /\ w_log[p].raised = w_log[p + 1].raised

C10_WorkerSubmitExecute ==
    /\ []C10_State
    /\ [][/\ Len(w_tasks') >= Len(w_tasks)
          /\ SubSeq(w_tasks', 1, Len(w_tasks)) = w_tasks]_vars

\* submit, submit, execute: the two pairs come back in submission order.
C10_Witness ==
    /\ Len(w_log) = 3
    /\ w_log[1].op = "submit"
    /\ w_log[2].op = "submit"
    /\ w_log[3].op = "execute"
    /\ w_log[1].task.key # w_log[2].task.key
    /\ w_log[1].task.values = <<1, 1>>
    /\ w_log[2].task.values = <<0, 1>>
    /\ w_log[3].raised = ""
    /\ w_log[3].ret[1] = <<w_log[1].task.key, 1>>
    /\ Len(w_log[3].ret) = 2
====
